---- MODULE Spec2Model ----
(***************************************************************************)
(* Model of scripts/generate_post.py: one run of main(), which builds a    *)
(* prompt, calls exactly one text generator (OpenAI chat completion or the *)
(* Hugging Face inference API), extracts a title, makes sure the text has  *)
(* a frontmatter block, and writes posts/<date>-<slug>.md.                 *)
(*                                                                         *)
(* Python strings are modelled as sequences of one-character strings, so   *)
(* that strip, lstrip, splitlines, startswith, slicing and str() are       *)
(* computed character by character as the interpreter computes them.       *)
(***************************************************************************)
EXTENDS Integers, Sequences, FiniteSets, TLC

\* ---------------------------------------------------------------- bounds

\* Longest generated text (in characters) a provider returns, short form.
MaxLen == 4

\* Long headings are built as  '-'^i  'A'^n  '!'^j  'b'^k  with n ranging
\* over SlugCut-SlugSlack .. SlugCut+SlugSlack and i, j, k over 0..MaxPad.
MaxPad == 1
SlugSlack == 1

\* Number of times the calendar date may advance during one run.
MaxTicks == 1

\* ------------------------------------------------------ program constants

\* title.lower()...[:60]
SlugCut == 60

\* ------------------------------------------------------ characters, str

LowerLetters == <<"a","b","c","d","e","f","g","h","i","j","k","l","m",
                  "n","o","p","q","r","s","t","u","v","w","x","y","z">>
UpperLetters == <<"A","B","C","D","E","F","G","H","I","J","K","L","M",
                  "N","O","P","Q","R","S","T","U","V","W","X","Y","Z">>
DigitChars == <<"0","1","2","3","4","5","6","7","8","9">>

Range(s) == { s[i] : i \in 1..Len(s) }

\* str.isspace() for one character (the ASCII whitespace of str.strip()).
Whitespace == {" ", "\n", "\t", "\r"}

\* The line boundaries str.splitlines() splits on that occur in the model.
LineBreaks == {"\n"}

\* U+2102 DOUBLE-STRUCK CAPITAL C, written as one character: a letter that
\* is uppercase (isupper()) and has no lowercase form, so that lower()
\* leaves it as it is.  Python has 471 such characters.
DoubleStruckC == "U+2102"

\* the characters c with c.isalnum()
Alnum == Range(LowerLetters) \cup Range(UpperLetters) \cup Range(DigitChars)
           \cup {DoubleStruckC}
Upper == Range(UpperLetters)

\* c.isalnum()
IsAlnum(c) == c \in Alnum

\* c.lower() for one character
LowerChar(c) ==
  IF c \in Upper
  THEN LowerLetters[CHOOSE i \in 1..Len(UpperLetters) : UpperLetters[i] = c]
  ELSE c

\* s.lower()
Lower(s) == [i \in 1..Len(s) |-> LowerChar(s[i])]

\* s.lstrip(chars) with an explicit character set
RECURSIVE LStripChars(_, _)
LStripChars(s, cs) ==
  IF s # <<>> /\ Head(s) \in cs THEN LStripChars(Tail(s), cs) ELSE s

\* s.rstrip(chars) with an explicit character set
RECURSIVE RStripChars(_, _)
RStripChars(s, cs) ==
  IF s # <<>> /\ s[Len(s)] \in cs
  THEN RStripChars(SubSeq(s, 1, Len(s) - 1), cs)
  ELSE s

\* s.strip(chars)
StripChars(s, cs) == RStripChars(LStripChars(s, cs), cs)

\* s.lstrip() and s.strip(): whitespace
LStrip(s) == LStripChars(s, Whitespace)
Strip(s) == StripChars(s, Whitespace)

\* s.startswith(p)
StartsWith(s, p) == Len(s) >= Len(p) /\ SubSeq(s, 1, Len(p)) = p

\* s.splitlines(): the lines without their line breaks; a trailing line
\* break does not open a further, empty line.
RECURSIVE SplitLines(_)
SplitLines(s) ==
  IF s = <<>> THEN <<>>
  ELSE IF \E i \in 1..Len(s) : s[i] \in LineBreaks
       THEN LET i == CHOOSE k \in 1..Len(s) :
                       /\ s[k] \in LineBreaks
                       /\ \A m \in 1..(k - 1) : s[m] \notin LineBreaks
            IN  <<SubSeq(s, 1, i - 1)>> \o SplitLines(SubSeq(s, i + 1, Len(s)))
       ELSE <<s>>

\* c * n
RECURSIVE Rep(_, _)
Rep(c, n) == IF n <= 0 THEN <<>> ELSE <<c>> \o Rep(c, n - 1)

\* str(n) for a natural number
RECURSIVE NatStr(_)
NatStr(n) == IF n < 10 THEN <<DigitChars[n + 1]>>
             ELSE NatStr(n \div 10) \o <<DigitChars[(n % 10) + 1]>>

\* zero-padded decimal of width w ("%0wd")
ZeroPad(n, w) == LET d == NatStr(n) IN Rep("0", w - Len(d)) \o d

\* --------------------------------------------------------- string literals

\* "generated_text" and "error", the keys gen_with_hf looks for
KeyGeneratedText == <<"g","e","n","e","r","a","t","e","d","_","t","e","x","t">>
KeyError == <<"e","r","r","o","r">>
\* a key of a response that carries neither
KeyScore == <<"s","c","o","r","e">>

\* "---"
Delimiter == <<"-","-","-">>

\* "Auto Generated Post"
DefaultTitle == <<"A","u","t","o"," ","G","e","n","e","r","a","t","e","d",
                  " ","P","o","s","t">>

\* "posts"
OutDir == <<"p","o","s","t","s">>

\* ------------------------------------------- JSON values (resp.json())

JNull == [kind |-> "null"]
JInt(n) == [kind |-> "int", n |-> n]
JStr(s) == [kind |-> "str", s |-> s]
JList(items) == [kind |-> "list", items |-> items]
\* a dict is the sequence of its <<key, value>> pairs, in insertion order
JDict(items) == [kind |-> "dict", items |-> items]

HasKey(d, k) == \E i \in 1..Len(d.items) : d.items[i][1] = k
GetKey(d, k) == d.items[CHOOSE i \in 1..Len(d.items) : d.items[i][1] = k][2]

\* p in s  for two strings
IsSubstr(p, s) ==
  \E i \in 0..(Len(s) - Len(p)) : SubSeq(s, i + 1, i + Len(p)) = p

\* repr(s) of a string: quote choice and escapes
ReprChar(c, q) ==
  CASE c = "\n" -> <<"\\", "n">>
    [] c = "\t" -> <<"\\", "t">>
    [] c = "\r" -> <<"\\", "r">>
    [] c = "\\" -> <<"\\", "\\">>
    [] c = q    -> <<"\\", q>>
    [] OTHER    -> <<c>>

RECURSIVE ReprBody(_, _)
ReprBody(s, q) ==
  IF s = <<>> THEN <<>> ELSE ReprChar(Head(s), q) \o ReprBody(Tail(s), q)

ReprStr(s) ==
  LET q == IF "'" \in Range(s) /\ "\"" \notin Range(s) THEN "\"" ELSE "'"
  IN  <<q>> \o ReprBody(s, q) \o <<q>>

\* repr(v) of a JSON value, as Python prints lists and dicts
RECURSIVE PyRepr(_)
RECURSIVE ReprItems(_)
RECURSIVE ReprPairs(_)
ReprItems(items) ==
  IF items = <<>> THEN <<>>
  ELSE PyRepr(Head(items))
         \o (IF Len(items) > 1 THEN <<",", " ">> ELSE <<>>)
         \o ReprItems(Tail(items))
ReprPairs(items) ==
  IF items = <<>> THEN <<>>
  ELSE ReprStr(Head(items)[1]) \o <<":", " ">> \o PyRepr(Head(items)[2])
         \o (IF Len(items) > 1 THEN <<",", " ">> ELSE <<>>)
         \o ReprPairs(Tail(items))
PyRepr(v) ==
  CASE v.kind = "null" -> <<"N","o","n","e">>
    [] v.kind = "int"  -> NatStr(v.n)
    [] v.kind = "str"  -> ReprStr(v.s)
    [] v.kind = "list" -> <<"[">> \o ReprItems(v.items) \o <<"]">>
    [] v.kind = "dict" -> <<"{">> \o ReprPairs(v.items) \o <<"}">>

\* str(v)
PyStr(v) == IF v.kind = "str" THEN v.s ELSE PyRepr(v)

\* k in v  for a string k: "true", "false", or the exception raised
PyContains(k, v) ==
  CASE v.kind = "dict" -> IF HasKey(v, k) THEN "true" ELSE "false"
    [] v.kind = "str"  -> IF IsSubstr(k, v.s) THEN "true" ELSE "false"
    [] v.kind = "list" -> IF \E i \in 1..Len(v.items) : v.items[i] = JStr(k)
                          THEN "true" ELSE "false"
    [] OTHER           -> "TypeError"

\* ------------------------------------------------------------ gen_with_hf

Returned(v) == [exc |-> "none", val |-> v]
Raised(e) == [exc |-> e, val |-> JNull]

\* Faulty variant of RaiseForStatus: only server errors are rejected.
RaiseForStatusServerOnly(status) == 500 <= status /\ status < 600

\* resp.raise_for_status(): requests raises HTTPError for 4xx and 5xx
RaiseForStatus(status) == 400 <= status /\ status < 600

\* lines 37-44: the extraction of the text from the parsed body
ExtractText(data) ==
  IF data.kind = "dict" /\ HasKey(data, KeyError)
  THEN \* "HF error: " + data["error"]  raises TypeError unless it is a str
       IF GetKey(data, KeyError).kind = "str"
       THEN Raised("RuntimeError") ELSE Raised("TypeError")
  ELSE IF data.kind = "list"
  THEN IF data.items = <<>>
       THEN Raised("IndexError")                                \* data[0]
       ELSE LET first == data.items[1]
                has == PyContains(KeyGeneratedText, first)
            IN  IF has = "TypeError" THEN Raised("TypeError")
                ELSE IF has = "true"
                THEN IF first.kind = "dict"
                     THEN Returned(GetKey(first, KeyGeneratedText))
                     ELSE Raised("TypeError")    \* str or list subscripted by a str
                ELSE IF first.kind = "dict"
                THEN Returned(IF HasKey(first, KeyGeneratedText)
                              THEN GetKey(first, KeyGeneratedText)
                              ELSE JStr(PyStr(first)))
                ELSE Returned(JStr(PyStr(data)))
  ELSE Returned(JStr(PyStr(data)))

\* lines 34-44: what gen_with_hf does with the response it received
HandleResponse(resp) ==
  IF RaiseForStatus(resp.status) THEN Raised("HTTPError")
  ELSE IF resp.body.kind = "invalid" THEN Raised("JSONDecodeError")
  ELSE ExtractText(resp.body)

\* ------------------------------------------------ parse_title_from_output

IsHeading(line) == StartsWith(Strip(line), <<"#">>)

\* line.strip().lstrip("# ").strip()
HeadingText(line) == Strip(LStripChars(Strip(line), {"#", " "}))

parse_title_from_output(text) ==
  LET lines == SplitLines(text)
  IN  IF \E i \in 1..Len(lines) : IsHeading(lines[i])
      THEN LET i == CHOOSE k \in 1..Len(lines) :
                      /\ IsHeading(lines[k])
                      /\ \A m \in 1..(k - 1) : ~IsHeading(lines[m])
           IN  HeadingText(lines[i])
      ELSE DefaultTitle

\* ------------------------------------------------------------ dates

\* datetime.date values the clock passes through; the last day of a year
\* is followed by the first day of the next.
DateAt(t) == IF t = 0 THEN [year |-> 2026, month |-> 12, day |-> 31]
             ELSE [year |-> 2027, month |-> 1, day |-> t]

\* date.isoformat(): YYYY-MM-DD
IsoFormat(d) ==
  ZeroPad(d.year, 4) \o <<"-">> \o ZeroPad(d.month, 2) \o <<"-">> \o ZeroPad(d.day, 2)

\* ------------------------------------------------------------ main, 83-86

\* Faulty variant of NeedsFrontmatter: the leading whitespace is not skipped.
NeedsFrontmatterNoLStrip(out) == ~StartsWith(out, Delimiter)

\* not out.lstrip().startswith("---")
NeedsFrontmatter(out) == ~StartsWith(LStrip(out), Delimiter)

\* f"---\ntitle: \"{title}\"\ndate: {date}\n---\n\n"
Front(title, iso) ==
  Delimiter \o <<"\n","t","i","t","l","e",":"," ","\"">> \o title
    \o <<"\"","\n","d","a","t","e",":"," ">> \o iso
    \o <<"\n">> \o Delimiter \o <<"\n","\n">>

\* lines 84-86: the text main goes on with
FrontmatterStep(text, t, iso) ==
  IF NeedsFrontmatter(text) THEN Front(t, iso) \o text ELSE text

\* ------------------------------------------------------------ save_markdown

\* "".join(c if c.isalnum() else "-" for c in title.lower())
Hyphenate(s) == [i \in 1..Len(s) |-> IF IsAlnum(s[i]) THEN s[i] ELSE "-"]

\* s[:n]
Prefix(s, n) == SubSeq(s, 1, IF Len(s) < n THEN Len(s) ELSE n)

\* Faulty variant of Slug: the hyphens are stripped before the cut, not after.
SlugStripThenCut(title) ==
  Prefix(StripChars(Hyphenate(Lower(title)), {"-"}), SlugCut)

\* line 58
Slug(title) == StripChars(Prefix(Hyphenate(Lower(title)), SlugCut), {"-"})

\* line 59 and 61: out_dir / f"{date}-{safe}.md"
FileName(iso, safe) == iso \o <<"-">> \o safe \o <<".","m","d">>
PathOf(dir, name) == dir \o <<"/">> \o name

\* -------------------------------------------------- python truthiness

\* os.environ.get(name): None when unset, else the string
Unset == JNull

\* Faulty variant of Falsy: only an unset variable counts as absent, an
\* empty one passes (as  `if key is None`  would have it).
FalsyNoneOnly(v) == v.kind = "null"

\* not v
Falsy(v) == v.kind = "null" \/ (v.kind = "str" /\ v.s = <<>>)

\* ------------------------------------------------------------ inputs

\* characters of the short generated texts
Alphabet == {"#", " ", "-", "a", "\n"}

ShortTexts == UNION { [1..n -> Alphabet] : n \in 0..MaxLen }

\* headings long enough for the 60-character cut to fall in or next to a
\* run of hyphens, and short ones with a letter that has no lowercase form
LongTitles ==
  { Rep("-", i) \o Rep("A", n) \o Rep("!", j) \o Rep("b", k) :
      i \in 0..MaxPad, n \in (SlugCut - SlugSlack)..(SlugCut + SlugSlack),
      j \in 0..(MaxPad + 1), k \in 0..MaxPad }
  \cup
  { Rep("A", i) \o <<" ", DoubleStruckC>> \o Rep("!", j) : i \in 0..MaxPad, j \in 0..MaxPad }

LongTexts == { <<"#", " ">> \o t : t \in LongTitles }

\* the texts a provider may generate
GeneratedTexts == ShortTexts \cup LongTexts

\* values of OPENAI_API_KEY and HF_INFERENCE_API_TOKEN
Credentials == { Unset, JStr(<<>>), JStr(<<"k">>) }

\* model identifiers
ModelMini == <<"g","p","t","-","4","o","-","m","i","n","i">>
ModelDefault == <<"g","p","t","-","4","o">>
ModelOther == <<"g","p","t","-","3",".","5">>

\* a Model object of the catalog, as the API lists it
KeyId == <<"i","d">>
ModelObject(id) == JDict(<< <<KeyId, JStr(id)>> >>)

\* openai.Model.list().data: a list of Model objects
Catalogs ==
  { JList(<<>>),
    JList(<<ModelObject(ModelDefault)>>),
    JList(<<ModelObject(ModelMini)>>),
    JList(<<ModelObject(ModelOther), ModelObject(ModelMini)>>),
    JList(<<ModelObject(ModelMini), ModelObject(ModelDefault)>>) }

\* HTTP statuses of the inference endpoint's response
Statuses == {200, 300, 404, 503}

\* a body that is not JSON
NotJson == [kind |-> "invalid"]

SomeText == <<"#", "a">>
ErrText == <<"a">>

\* the body  [{"generated_text": t}]
TextBody(t) == JList(<< JDict(<< <<KeyGeneratedText, JStr(t)>> >>) >>)

\* bodies of every shape, with fixed texts in them
ShapeBodies ==
  { TextBody(SomeText),
    JList(<<>>),
    JList(<< JDict(<< <<KeyGeneratedText, JInt(1)>> >>) >>),
    JList(<< JDict(<< <<KeyScore, JInt(1)>> >>) >>),
    JList(<< JDict(<<>>) >>),
    JList(<< JDict(<< <<KeyScore, JInt(1)>> >>),
             JDict(<< <<KeyGeneratedText, JStr(SomeText)>> >>) >>),
    JList(<< JInt(1) >>),
    JList(<< JNull >>),
    JList(<< JStr(ErrText) >>),
    JList(<< JStr(KeyGeneratedText) >>),
    JList(<< JList(<<>>) >>),
    JList(<< JList(<< JStr(KeyGeneratedText) >>) >>),
    JDict(<< <<KeyError, JStr(ErrText)>> >>),
    JDict(<< <<KeyError, JInt(1)>> >>),
    JDict(<< <<KeyError, JStr(ErrText)>>, <<KeyGeneratedText, JStr(SomeText)>> >>),
    JDict(<< <<KeyGeneratedText, JStr(SomeText)>>, <<KeyError, JNull>> >>),
    JDict(<< <<KeyGeneratedText, JStr(SomeText)>> >>),
    JDict(<<>>),
    JInt(1),
    JNull,
    JStr(SomeText),
    NotJson }

\* bodies of the inference endpoint's response
Bodies == ShapeBodies \cup { TextBody(t) : t \in GeneratedTexts }

\* responses of the inference endpoint: every status with every body
Responses == { [status |-> st, body |-> b] : st \in Statuses, b \in Bodies }

\* ------------------------------------------------------------ state

VARIABLES
  pc,         \* where the run of main() is
  env,        \* USE_OPENAI (line 8), OPENAI_API_KEY, HF_INFERENCE_API_TOKEN
  clock,      \* how often the calendar date has advanced since the start
  netCalls,   \* the network requests issued so far, in order
  catalog,    \* openai.Model.list().data as received
  resp,       \* the inference endpoint's response as received
  generated,  \* what the generator returned to main
  out,        \* main's local  out
  title,      \* main's local  title
  fs,         \* the file system: directories and files
  fsLog,      \* the file-system operations performed so far, in order
  exc         \* the exception that ended the run, or "none"

vars == <<pc, env, clock, netCalls, catalog, resp, generated, out, title,
          fs, fsLog, exc>>

\* a local that has not been assigned yet
None == [kind |-> "unset"]
NoResp == [status |-> 0, body |-> None]

Init ==
  /\ pc = "start"
  /\ env \in [useOpenAI : BOOLEAN, openaiKey : Credentials, hfToken : Credentials]
  /\ clock = 0
  /\ netCalls = <<>>
  /\ catalog = None
  /\ resp = NoResp
  /\ generated = None
  /\ out = None
  /\ title = None
  /\ fs = [dirs |-> {}, files |-> {}]
  /\ fsLog = <<>>
  /\ exc = "none"

\* an uncaught exception: the run ends, nothing else changes
Abort(e) == /\ pc' = "aborted"
            /\ exc' = e

\* datetime.date.today()
Today == DateAt(clock)

\* The calendar date advances while the run is under way.
Tick ==
  /\ pc \notin {"done", "aborted"}
  /\ clock < MaxTicks
  /\ clock' = clock + 1
  /\ UNCHANGED <<pc, env, netCalls, catalog, resp, generated, out, title,
                 fs, fsLog, exc>>

\* lines 75-81: the prompt is built and one generator is entered
MainStart ==
  /\ pc = "start"
  /\ pc' = IF env.useOpenAI THEN "gen_with_openai" ELSE "gen_with_hf"
  /\ UNCHANGED <<env, clock, netCalls, catalog, resp, generated, out, title,
                 fs, fsLog, exc>>

\* lines 11-14
OpenAICheckKey ==
  /\ pc = "gen_with_openai"
  /\ IF Falsy(env.openaiKey)
     THEN Abort("RuntimeError")
     ELSE pc' = "openai_list" /\ UNCHANGED exc
  /\ UNCHANGED <<env, clock, netCalls, catalog, resp, generated, out, title,
                 fs, fsLog>>

ListRequest == [op |-> "openai.Model.list", arg |-> <<>>]
ChatRequest(model) == [op |-> "openai.ChatCompletion.create", arg |-> model]
HFRequest == [op |-> "requests.post", arg |-> <<>>]

\* line 16, the argument:  openai.Model.list().data
OpenAIListModels ==
  /\ pc = "openai_list"
  /\ netCalls' = Append(netCalls, ListRequest)
  /\ \E c \in Catalogs : catalog' = c
  /\ pc' = "openai_chat"
  /\ UNCHANGED <<env, clock, resp, generated, out, title, fs, fsLog, exc>>

\* the catalog request fails
OpenAIListFails ==
  /\ pc = "openai_list"
  /\ netCalls' = Append(netCalls, ListRequest)
  /\ Abort("OpenAIError")
  /\ UNCHANGED <<env, clock, catalog, resp, generated, out, title, fs, fsLog>>

\* line 16:  "gpt-4o-mini" if "gpt-4o-mini" in <data> else "gpt-4o"
SelectModel(data) ==
  IF PyContains(ModelMini, data) = "true" THEN ModelMini ELSE ModelDefault

\* lines 15-21: the chat request and the text of its first choice
OpenAIChat ==
  /\ pc = "openai_chat"
  /\ netCalls' = Append(netCalls, ChatRequest(SelectModel(catalog)))
  /\ \E content \in GeneratedTexts :
       /\ generated' = JStr(Strip(content))
       /\ out' = JStr(Strip(content))
  /\ pc' = "normalize"
  /\ UNCHANGED <<env, clock, catalog, resp, title, fs, fsLog, exc>>

\* the chat request fails, or its response has no first choice
OpenAIChatFails ==
  /\ pc = "openai_chat"
  /\ netCalls' = Append(netCalls, ChatRequest(SelectModel(catalog)))
  /\ \E e \in {"OpenAIError", "IndexError"} : Abort(e)
  /\ UNCHANGED <<env, clock, catalog, resp, generated, out, title, fs, fsLog>>

\* lines 25-28
HFCheckToken ==
  /\ pc = "gen_with_hf"
  /\ IF Falsy(env.hfToken)
     THEN Abort("RuntimeError")
     ELSE pc' = "hf_post" /\ UNCHANGED exc
  /\ UNCHANGED <<env, clock, netCalls, catalog, resp, generated, out, title,
                 fs, fsLog>>

\* lines 29-44: the request is answered and the answer handled
HFPost ==
  /\ pc = "hf_post"
  /\ netCalls' = Append(netCalls, HFRequest)
  /\ \E r \in Responses :
       LET res == HandleResponse(r)
       IN  /\ resp' = r
           /\ IF res.exc = "none"
              THEN /\ generated' = res.val
                   /\ out' = res.val
                   /\ pc' = "normalize"
                   /\ UNCHANGED exc
              ELSE /\ Abort(res.exc)
                   /\ UNCHANGED <<generated, out>>
  /\ UNCHANGED <<env, clock, catalog, title, fs, fsLog>>

\* line 33: no response (connection error, or the 60 s timeout)
HFPostFails ==
  /\ pc = "hf_post"
  /\ netCalls' = Append(netCalls, HFRequest)
  /\ Abort("RequestException")
  /\ UNCHANGED <<env, clock, catalog, resp, generated, out, title, fs, fsLog>>

\* lines 83-86: the title, and the frontmatter if the text has none
Normalize ==
  /\ pc = "normalize"
  /\ IF out.kind # "str"
     THEN \* text.splitlines() on a value that is no string
          /\ Abort("AttributeError")
          /\ UNCHANGED <<out, title>>
     ELSE LET t == parse_title_from_output(out.s)
          IN  /\ title' = JStr(t)
              /\ out' = JStr(FrontmatterStep(out.s, t, IsoFormat(Today)))
              /\ pc' = "save"
              /\ UNCHANGED exc
  /\ UNCHANGED <<env, clock, netCalls, catalog, resp, generated, fs, fsLog>>

\* Path(out_dir).mkdir(parents=True, exist_ok=True)
MkDir(fsys, dir) == [fsys EXCEPT !.dirs = @ \cup {dir}]

\* Faulty variant of WriteFile: a copy is left beside the file.
WriteFileKeepBackup(fsys, path, content) ==
  [fsys EXCEPT !.files = { f \in @ : f.path # path }
                           \cup { [path |-> path, content |-> content],
                                  [path |-> path \o <<"~">>, content |-> content] }]

\* path.open("w") ... f.write(content): the file is created or replaced
WriteFile(fsys, path, content) ==
  [fsys EXCEPT !.files = { f \in @ : f.path # path }
                           \cup { [path |-> path, content |-> content] }]

\* the path save_markdown computes (lines 57-61)
SavePath == PathOf(OutDir, FileName(IsoFormat(Today), Slug(title.s)))

\* lines 56-64 and 88: the post is written
SaveMarkdown ==
  /\ pc = "save"
  /\ fs' = WriteFile(MkDir(fs, OutDir), SavePath, out.s)
  /\ fsLog' = fsLog \o <<"mkdir", "write">>
  /\ pc' = "done"
  /\ UNCHANGED <<env, clock, netCalls, catalog, resp, generated, out, title, exc>>

\* line 60 raises: the directory cannot be created
SaveMkdirFails ==
  /\ pc = "save"
  /\ Abort("OSError")
  /\ UNCHANGED <<env, clock, netCalls, catalog, resp, generated, out, title,
                 fs, fsLog>>

\* line 62 raises: the directory is there, the file cannot be opened
SaveOpenFails ==
  /\ pc = "save"
  /\ fs' = MkDir(fs, OutDir)
  /\ fsLog' = Append(fsLog, "mkdir")
  /\ Abort("OSError")
  /\ UNCHANGED <<env, clock, netCalls, catalog, resp, generated, out, title>>

Next ==
  \/ Tick
  \/ MainStart
  \/ OpenAICheckKey
  \/ OpenAIListModels
  \/ OpenAIListFails
  \/ OpenAIChat
  \/ OpenAIChatFails
  \/ HFCheckToken
  \/ HFPost
  \/ HFPostFails
  \/ Normalize
  \/ SaveMarkdown
  \/ SaveMkdirFails
  \/ SaveOpenFails

Spec == Init /\ [][Next]_vars

\* ==================================================================
\* Properties
\* ==================================================================

\* the run got as far as handing title and content to save_markdown
Handed == pc \in {"save", "done"} \/ (pc = "aborted" /\ exc = "OSError")

\* the inference endpoint answered
Answered == resp # NoResp

IsErrorDict(body) == body.kind = "dict" /\ HasKey(body, KeyError)

\* the files of the file system, and the only one if there is one
TheFile == CHOOSE f \in fs.files : TRUE

\* ------------------------------------------------------------------ C1
\* C1: whatever text the generator returned, the content main hands to
\* save_markdown begins with the frontmatter delimiter '---' as its very
\* first characters.
C1_ContentBeginsWithDelimiter ==
  Handed => StartsWith(out.s, Delimiter)

\* ------------------------------------------------------------------ C2
\* what the fallback chain is said to return for a body
ChainResult(body) ==
  IF body.kind = "list" /\ body.items # <<>> /\ body.items[1].kind = "dict"
  THEN IF HasKey(body.items[1], KeyGeneratedText)
       THEN GetKey(body.items[1], KeyGeneratedText)
       ELSE JStr(PyStr(body.items[1]))
  ELSE JStr(PyStr(body))

\* C2: for every JSON body (of a successful response) that is not a dict
\* with an 'error' key, gen_with_hf raises nothing and returns a string:
\* the 'generated_text' of the first element, else the string form of the
\* first element if it is a dict, else the string form of the whole body.
C2_FallbackChainNeverRaises ==
  (Answered /\ resp.status = 200 /\ resp.body # NotJson /\ ~IsErrorDict(resp.body))
    => /\ generated # None
       /\ generated.kind = "str"
       /\ generated = ChainResult(resp.body)

\* ------------------------------------------------------------------ C3
\* the catalog lists a model whose identifier is id
Lists(cat, id) ==
  \E i \in 1..Len(cat.items) :
    /\ cat.items[i].kind = "dict"
    /\ HasKey(cat.items[i], KeyId)
    /\ GetKey(cat.items[i], KeyId) = JStr(id)

\* C3: every chat request follows a catalog request of the same call and
\* names 'gpt-4o-mini' when the catalog lists a model with that identifier,
\* 'gpt-4o' when it lists none.
C3_PrefersMiniWhenListed ==
  \A i \in 1..Len(netCalls) :
    netCalls[i].op = "openai.ChatCompletion.create"
      => /\ i > 1 /\ netCalls[i - 1] = ListRequest
         /\ netCalls[i].arg =
              (IF Lists(catalog, ModelMini) THEN ModelMini ELSE ModelDefault)

\* ------------------------------------------------------------------ C4
SelectedCredential == IF env.useOpenAI THEN env.openaiKey ELSE env.hfToken
OtherCredential == IF env.useOpenAI THEN env.hfToken ELSE env.openaiKey

\* the credential is unset or empty
Absent(c) == c = Unset \/ c = JStr(<<>>)

\* C4: when the selected provider's credential is unset or empty, no
\* network request is ever issued, no directory or file is ever created,
\* the other provider's generator is never entered, and the run can only
\* end in the configuration error.
C4_MissingCredentialAborts ==
  Absent(SelectedCredential)
    => /\ netCalls = <<>>
       /\ fsLog = <<>>
       /\ fs = [dirs |-> {}, files |-> {}]
       /\ pc \in {"start",
                  IF env.useOpenAI THEN "gen_with_openai" ELSE "gen_with_hf",
                  "aborted"}
       /\ generated = None
       /\ (pc = "aborted" => exc = "RuntimeError")

\* the run was aborted for the missing credential although the other
\* provider's credential is set
C4_Witness ==
  /\ Absent(SelectedCredential)
  /\ ~Absent(OtherCredential)
  /\ pc = "aborted"
  /\ exc = "RuntimeError"

\* ------------------------------------------------------------------ C5
\* gen_with_hf raised: nothing was returned and the run ended there
HFRaised == generated = None /\ pc = "aborted" /\ exc # "none"

HeadingContent(line) == Strip(LStripChars(Strip(line), {"#"}))

\* the title the claim describes
ClaimedTitle(text) ==
  LET lines == SplitLines(text)
      heads == { i \in 1..Len(lines) : StartsWith(Strip(lines[i]), <<"#">>) }
  IN  IF heads = {} THEN DefaultTitle
      ELSE HeadingContent(lines[CHOOSE i \in heads : \A j \in heads : i <= j])

\* C6: the title main extracts is the content of the first line beginning
\* with '#' (after stripping), with only the heading marker and the
\* surrounding whitespace removed, and 'Auto Generated Post' if there is no
\* such line.
C6_TitleIsFirstHeadingContent ==
  title # None => title = JStr(ClaimedTitle(generated.s))

\* ------------------------------------------------------------------ C7
\* the slug inside a path  posts/YYYY-MM-DD-<slug>.md
SlugOfPath(path) == SubSeq(path, Len(OutDir) + 1 + 10 + 1 + 1, Len(path) - 3)

\* lowercase ASCII letters, digits and the hyphen
SlugChars == Range(LowerLetters) \cup Range(DigitChars) \cup {"-"}

\* C7 as stated: the slug in the name of every file written consists of
\* lowercase alphanumerics and hyphens only, is at most 60 characters long,
\* and neither begins nor ends with a hyphen.
C7_SlugIsSafe ==
  \A f \in fs.files :
    LET safe == SlugOfPath(f.path)
    IN  /\ safe = Slug(title.s)
        /\ Range(safe) \subseteq SlugChars
        /\ Len(safe) <= SlugCut
        /\ safe # <<>> => (safe[1] # "-" /\ safe[Len(safe)] # "-")

\* C7 amended: the slug in the name of every file written consists of
\* hyphens and alphanumeric characters only, none of them an ASCII uppercase
\* letter (an uppercase letter without a lowercase form is kept), is at most
\* 60 characters long, and neither begins nor ends with a hyphen.
C7_SlugIsSafeUpToCase ==
  \A f \in fs.files :
    LET safe == SlugOfPath(f.path)
    IN  /\ safe = Slug(title.s)
        /\ Range(safe) \subseteq (Alnum \ Upper) \cup {"-"}
        /\ Len(safe) <= SlugCut
        /\ safe # <<>> => (safe[1] # "-" /\ safe[Len(safe)] # "-")

\* a file was written for a title whose 60th character became a hyphen
\* that the cut left at the end
C7_Witness ==
  /\ pc = "done"
  /\ fs.files # {}
  /\ Len(title.s) > SlugCut
  /\ Hyphenate(Lower(title.s))[SlugCut] = "-"
  /\ Hyphenate(Lower(title.s))[SlugCut + 1] # "-"
  /\ Len(SlugOfPath(TheFile.path)) < SlugCut

\* ------------------------------------------------------------------ C8
OpenAIOps == {"openai.Model.list", "openai.ChatCompletion.create"}

\* the requests show exactly one generator at work, which got its answer
OneGeneratorReturned ==
  /\ generated.kind = "str"
  /\ \/ /\ \A i \in 1..Len(netCalls) : netCalls[i].op \in OpenAIOps
        /\ Cardinality({ i \in 1..Len(netCalls) :
                           netCalls[i].op = "openai.ChatCompletion.create" }) = 1
     \/ netCalls = <<HFRequest>>

\* C8: the file system is touched only by the one save_markdown call at
\* the end, after exactly one generator has returned and the text has been
\* normalized; a run that completes leaves exactly one file, and no run
\* leaves more.
C8_OneFileAtTheEnd ==
  /\ pc \notin {"done", "aborted"} => (fsLog = <<>> /\ fs = [dirs |-> {}, files |-> {}])
  /\ fsLog # <<>> => /\ OneGeneratorReturned
                     /\ title.kind = "str"
                     /\ out.kind = "str"
                     /\ fsLog \in {<<"mkdir">>, <<"mkdir", "write">>}
  /\ Cardinality(fs.files) <= 1
  /\ pc = "done" => /\ fsLog = <<"mkdir", "write">>
                    /\ fs.dirs = {OutDir}
                    /\ Cardinality(fs.files) = 1
                    /\ TheFile.content = out.s

\* a run completed and its file is there
C8_Witness ==
  /\ pc = "done"
  /\ fs.files # {}
  /\ Len(netCalls) = 2

\* ------------------------------------------------------------------ C9
\* C9: for a generated text that begins with '---' once its leading
\* whitespace is ignored, the content handed on and written is that text
\* character for character; and the frontmatter step applied again to the
\* content, on whatever date, changes nothing.
C9_FrontmatterPassThrough ==
  Handed =>
    /\ StartsWith(LStrip(generated.s), Delimiter)
         => /\ out = generated
            /\ \A f \in fs.files : f.content = generated.s
    /\ LET again == parse_title_from_output(out.s)
       IN  \A t \in 0..MaxTicks :
             FrontmatterStep(out.s, again, IsoFormat(DateAt(t))) = out.s

\* a text with whitespace before its '---' was written unchanged
C9_Witness ==
  /\ pc = "done"
  /\ generated.s # <<>>
  /\ generated.s[1] \in Whitespace
  /\ StartsWith(LStrip(generated.s), Delimiter)
  /\ fs.files # {}
  /\ TheFile.content = generated.s

\* ------------------------------------------------------------------ C10
\* the date field of a synthesized frontmatter: it follows
\* '---\ntitle: "' <title> '"\ndate: '
FrontDate(content, t) ==
  SubSeq(content, Len(Front(t, <<>>)) - 5 + 1, Len(Front(t, <<>>)) - 5 + 10)

\* the date prefix of the file's name
FileDate(path) == SubSeq(path, Len(OutDir) + 1 + 1, Len(OutDir) + 1 + 10)

====
